---- MODULE Spec2Model ----
(***************************************************************************)
(* Reconciliation of one ordering service node against the operations      *)
(* console: plugins/modules/ordering_service_node.py, main().              *)
(*                                                                         *)
(* A run of main() is a sequence of steps, one per remote call or local    *)
(* decision block, driven by pc.  The console is the variable remote (the  *)
(* component stored under the display name) plus the read-only facts in    *)
(* console.  Runs repeat with the same input parameters.                   *)
(***************************************************************************)
EXTENDS Integers, Sequences, FiniteSets, TLC

VARIABLES
    input,      \* the parameters the caller passed (_load_params), fixed over runs
    console,    \* console facts: free cluster?, latest peer / orderer versions
    remote,     \* the component the console holds under the name, or Absent
    run,        \* number of the current run of main()
    pc,         \* position of the current run in main()
    params,     \* module.params of the current run
    osn,        \* local ordering_service_node
    exists,     \* local ordering_service_node_exists
    corrupt,    \* local ordering_service_node_corrupt
    classified, \* classification made at the start of the run
    changed,    \* local changed
    expected,   \* local expected_ordering_service_node
    new_osn,    \* local new_ordering_service_node
    diff,       \* local diff
    calls,      \* remote calls issued by the current run, in order
    history,    \* what each finished run handed to exit_json / fail_json
    failures,   \* number of remote calls that have failed so far
    fn          \* workspace of the msp_utils conversions (SpecMsp)

vars == <<fn, input, console, remote, run, pc, params, osn, exists, corrupt,
          classified, changed, expected, new_osn, diff, calls, history,
          failures>>

---------------------------------------------------------------------------
(* Bounds of the model. *)

MaxRuns == 2
MaxFailures == 1
MaxRecoveryRuns == 4
MaxPolicyCalls == 2

---------------------------------------------------------------------------
(* JSON-like values.  A scalar is [s |-> x], a mapping is [d |-> f] with f  *)
(* a function from keys to values, a list is [l |-> <<...>>], a boolean is  *)
(* [b |-> x], and Python's None is None.                                    *)

S(x) == [s |-> x]
D(f) == [d |-> f]
L(xs) == [l |-> xs]
B(x) == [b |-> x]
None == [none |-> TRUE]
E == <<>>

IsDict(v) == DOMAIN v = {"d"}
IsList(v) == DOMAIN v = {"l"}
IsNone(v) == v = None

Put(f, k, v) == [x \in (DOMAIN f) \cup {k} |-> IF x = k THEN v ELSE f[x]]
Del(f, k) == [x \in (DOMAIN f) \ {k} |-> f[x]]
Get(f, k, default) == IF k \in DOMAIN f THEN f[k] ELSE default

\* Python truthiness of a parameter value: None, the empty list, the empty
\* mapping and the empty string are false.
Truthy(v) ==
    /\ ~IsNone(v)
    /\ (IsList(v) => Len(v.l) > 0)
    /\ (IsDict(v) => DOMAIN v.d # {})
    /\ (DOMAIN v = {"s"} => v.s # "")

Range(xs) == {xs[i] : i \in DOMAIN xs}

---------------------------------------------------------------------------
(* module_utils/dict_utils: copy_dict, equal_dicts, merge_dicts, diff_dicts *)

copy_dict(tree) == tree

equal_dicts(a, b) == a = b

RECURSIVE merge_dicts(_, _)
merge_dicts(base, overlay) ==
    [k \in (DOMAIN base) \cup (DOMAIN overlay) |->
        IF k \notin DOMAIN overlay THEN base[k]
        ELSE IF k \in DOMAIN base /\ IsDict(base[k]) /\ IsDict(overlay[k])
             THEN D(merge_dicts(base[k].d, overlay[k].d))
             ELSE overlay[k]]

\* merge_dicts called with a parameter value: a parameter that is not a
\* mapping (None) contributes no key.
merge_param(base, value) ==
    IF IsDict(value) THEN merge_dicts(base, value.d) ELSE base

diff_dicts(a, b) ==
    [k \in {x \in DOMAIN b : x \notin DOMAIN a \/ a[x] # b[x]} |-> b[k]]

---------------------------------------------------------------------------
(* module_utils/cert_utils: normalize_whitespace.  A certificate is a name, *)
(* or a name followed by white space; normalisation drops the white space.  *)

normalize_whitespace(cert) ==
    CASE cert = "A " -> "A"
      [] cert = "B " -> "B"
      [] OTHER -> cert

normalized_set(certs) == {normalize_whitespace(c) : c \in Range(certs)}

---------------------------------------------------------------------------
(* The parameters of the module (argument_spec) and the inputs explored.    *)

Name == "Ordering Service Node 2"

default_storage == D([orderer |-> D([size |-> S("100Gi"), class |-> None])])

\* certificate_authority, admins and crypto as the caller may combine them.
admincerts(certs) == D([component |-> D([admincerts |-> L(certs)])])

IdentityInputs ==
    { [certificate_authority |-> S("Orderer Org CA"), admins |-> L(<<"A ", "B">>), crypto |-> None],
      [certificate_authority |-> None, admins |-> None,
       crypto |-> D([enrollment |-> admincerts(<<"A", "B">>), msp |-> admincerts(<<"C">>)])],
      [certificate_authority |-> None, admins |-> None,
       crypto |-> D([enrollment |-> admincerts(<<>>), msp |-> admincerts(<<"B", "C">>)])],
      [certificate_authority |-> None, admins |-> None, crypto |-> None],
      [certificate_authority |-> S("Orderer Org CA"), admins |-> L(<<"B">>),
       crypto |-> D([msp |-> admincerts(<<"A">>)])] }

MspIdInputs == {"Org1MSP", "Org2MSP"}

ResourcesInputs ==
    { None, D([orderer |-> D([requests |-> D([cpu |-> S("500m")])])]) }

VersionInputs == { None, S("2.2.1"), S(">=2.2") }

ConfigBlockInputs == { None, S("/tmp/config_block.bin") }

ZoneInputs == { None, S("dal10") }

ConfigOverrideInputs ==
    { None, D([General |-> D([Keepalive |-> D([ServerMinInterval |-> S("70s")])])]) }

\* supports_check_mode=True: Ansible may run the module in check mode.  The
\* mode is a flag of the invocation (module.check_mode), not a parameter.
CheckModeInputs == BOOLEAN

\* The combinations explored: the parameters are varied a few at a time.  A
\* caller that names another MSP, or that overrides the configuration, leaves
\* the other tuning parameters out; a zone comes with a configuration
\* override; a check-mode run leaves every tuning parameter out.
Combinations ==
    { c \in [msp_id : MspIdInputs, config_block : ConfigBlockInputs,
             resources : ResourcesInputs, version : VersionInputs,
             config_override : ConfigOverrideInputs, zone : ZoneInputs,
             check_mode : CheckModeInputs] :
        /\ c.msp_id = "Org2MSP" =>
              IsNone(c.config_block) /\ IsNone(c.resources) /\ IsNone(c.config_override)
        /\ ~IsNone(c.config_override) => IsNone(c.resources) /\ IsNone(c.version)
        /\ ~IsNone(c.zone) =>
              /\ c.msp_id = "Org1MSP" /\ IsNone(c.config_block) /\ IsNone(c.resources)
              /\ IsNone(c.version) /\ ~IsNone(c.config_override)
        /\ c.check_mode =>
              /\ c.msp_id = "Org1MSP" /\ IsNone(c.resources) /\ IsNone(c.version)
              /\ IsNone(c.config_override) /\ IsNone(c.zone) }

Inputs ==
    { [state |-> st, name |-> S(Name), msp_id |-> S(c.msp_id),
       ordering_service |-> S("Ordering Service"),
       orderer_type |-> S("raft"), system_channel_id |-> S("testchainid"),
       config_block |-> c.config_block,
       certificate_authority |-> ident.certificate_authority,
       admins |-> ident.admins, crypto |-> ident.crypto,
       config_override |-> c.config_override, resources |-> c.resources,
       storage |-> default_storage, hsm |-> None, zone |-> c.zone,
       version |-> c.version, wait_timeout |-> S("60"), check_mode |-> c.check_mode] :
      st \in {"present", "absent"}, ident \in IdentityInputs, c \in Combinations }

\* AnsibleModule fills a parameter the caller left out with the default of
\* argument_spec: config_override has default=dict(); resources, crypto and
\* version have none and stay None.
argument_defaults(p) ==
    IF IsNone(p.config_override) THEN [p EXCEPT !.config_override = D(E)] ELSE p

---------------------------------------------------------------------------
(* The console.                                                             *)

Absent == None

\* Versions the console offers; a range resolves to the latest of its kind.
OrdererLatest == "2.4.1"

ConsoleStates ==
    { [free |-> FALSE, peer_latest |-> "2.4.1"],
      [free |-> FALSE, peer_latest |-> "2.4.3"],
      [free |-> TRUE, peer_latest |-> "2.4.1"] }

IsRange(version) == version = ">=2.2"

resolve_ordering_service_node_version(version) ==
    IF IsRange(version) THEN OrdererLatest ELSE version

resolve_peer_version(version) ==
    IF IsRange(version) THEN console.peer_latest ELSE version

\* Resources the console itself gives a deployed node.
console_resources ==
    D([orderer |-> D([requests |-> D([cpu |-> S("250m"), memory |-> S("500M")]),
                      limits |-> D([cpu |-> S("250m"), memory |-> S("500M")])]),
       proxy |-> D([requests |-> D([cpu |-> S("100m"), memory |-> S("200M")])]),
       init |-> D([requests |-> D([cpu |-> S("100m")])])])

\* A fully deployed node as the console returns it.
clean_node(fin, certs) ==
    LET base == [id |-> S("osn1"), display_name |-> S(Name), msp_id |-> S("Org1MSP"),
                 cluster_id |-> S("cluster1"), cluster_name |-> S("Ordering Service"),
                 orderer_type |-> S("raft"), system_channel_id |-> S("testchainid"),
                 config_override |-> D(E), resources |-> console_resources,
                 version |-> S("2.2.1"), consenter_proposal_fin |-> B(fin)]
    IN  IF IsNone(certs) THEN base ELSE Put(base, "admin_certs", certs)

\* A node the console lists but whose deployment is gone.
corrupt_node ==
    [id |-> S("osn0"), display_name |-> S(Name), msp_id |-> S("Org1MSP"),
     deployment_attrs_missing |-> B(TRUE)]

RemoteStates ==
    {Absent, corrupt_node}
    \cup { clean_node(fin, certs) :
             fin \in BOOLEAN, certs \in {None, L(<<"B", "C">>), L(<<"A", "B">>)} }

---------------------------------------------------------------------------
(* Remote calls                                                             *)

Call(op, arg, ok) == [op |-> op, arg |-> arg, ok |-> ok]

MutatingOps ==
    { "delete_ordering_service_node", "delete_ext_ordering_service_node",
      "create_ordering_service", "update_ordering_service_node",
      "edit_admin_certs", "submit_config_block", "edit_ordering_service_node" }

Mutations(cs) == SelectSeq(cs, LAMBDA c : c.op \in MutatingOps)

---------------------------------------------------------------------------
(* Leaving main(): module.exit_json and module.fail_json                    *)

exit_json(ch, node) ==
    [failed |-> FALSE, changed |-> ch, ordering_service_node |-> node, msg |-> None]

fail_json(msg) ==
    [failed |-> TRUE, changed |-> FALSE, ordering_service_node |-> None, msg |-> msg]

Leave(outcome, cs) ==
    /\ pc' = IF outcome.failed THEN "failed" ELSE "done"
    /\ history' = Append(history, [outcome |-> outcome, calls |-> cs,
                                   classified |-> classified])
    /\ calls' = cs

Locals == <<osn, exists, corrupt, classified, changed, expected, new_osn, diff>>

---------------------------------------------------------------------------
Init ==
    /\ input \in Inputs
    /\ console \in ConsoleStates
    /\ remote \in RemoteStates
    /\ run = 1
    /\ pc = "start"
    /\ params = argument_defaults(input)
    /\ osn = None
    /\ exists = FALSE
    /\ corrupt = FALSE
    /\ classified = "unknown"
    /\ changed = FALSE
    /\ expected = None
    /\ new_osn = None
    /\ diff = None
    /\ calls = <<>>
    /\ history = <<>>
    /\ failures = 0
    /\ fn = None

\* Determine if the ordering service node exists.
Fetch ==
    /\ pc = "start"
    /\ calls' = Append(calls, Call("get_component_by_display_name", params.name, TRUE))
    /\ osn' = remote
    /\ exists' = ~IsNone(remote)
    /\ corrupt' = (~IsNone(remote) /\ "deployment_attrs_missing" \in DOMAIN remote)
    /\ classified' = IF IsNone(remote) THEN "absent"
                     ELSE IF "deployment_attrs_missing" \in DOMAIN remote THEN "corrupt"
                     ELSE "clean"
    /\ pc' = "free"
    /\ UNCHANGED <<fn, input, console, remote, run, params, changed, expected, new_osn,
                   diff, history, failures>>

\* A free cluster accepts no resource or storage configuration.
FreeCluster ==
    /\ pc = "free"
    /\ LET cs == Append(calls, Call("is_free_cluster", None, TRUE))
       IN  IF console.free /\ ~IsNone(input.resources)
           THEN /\ Leave(fail_json(S("Cannot specify resources or storage for a free IBM Kubernetes Service cluster")), cs)
                /\ UNCHANGED params
           ELSE /\ calls' = cs
                /\ pc' = "decide"
                /\ params' = IF console.free /\ exists
                             THEN [params EXCEPT !.resources = D(E), !.storage = D(E)]
                             ELSE params
                /\ UNCHANGED history
    /\ UNCHANGED <<fn, input, console, remote, run, failures>>
    /\ UNCHANGED Locals

\* Mutant of DeleteNode: a corrupt node is removed by the unmanaged delete
\* and what follows it is carried out as well.
DeleteNode_unmanaged ==
    /\ pc = "decide"
    /\ params.state = "absent"
    /\ exists
    /\ remote' = Absent
    /\ Leave(exit_json(TRUE, None),
             calls \o <<Call("delete_ext_ordering_service_node", osn["id"], TRUE),
                        Call("delete_ordering_service_node", osn["id"], TRUE)>>)
    /\ UNCHANGED <<fn, input, console, run, params, failures>>
    /\ UNCHANGED Locals

\* state=absent and the node exists: delete it.
DeleteNode ==
    /\ pc = "decide"
    /\ params.state = "absent"
    /\ exists
    /\ remote' = Absent
    /\ Leave(exit_json(TRUE, None),
             Append(calls, Call("delete_ordering_service_node", osn["id"], TRUE)))
    /\ UNCHANGED <<fn, input, console, run, params, failures>>
    /\ UNCHANGED Locals

\* Mutant of NothingToDelete: the exit reports a change.
NothingToDelete_changed ==
    /\ pc = "decide"
    /\ params.state = "absent"
    /\ ~exists
    /\ Leave(exit_json(TRUE, None), calls)
    /\ UNCHANGED <<fn, input, console, remote, run, params, failures>>
    /\ UNCHANGED Locals

\* state=absent and there is no node.
NothingToDelete ==
    /\ pc = "decide"
    /\ params.state = "absent"
    /\ ~exists
    /\ Leave(exit_json(FALSE, None), calls)
    /\ UNCHANGED <<fn, input, console, remote, run, params, failures>>
    /\ UNCHANGED Locals

\* Mutant of DeleteCorrupt: the corrupt entry is forgotten, not deleted.
DeleteCorrupt_skipped ==
    /\ pc = "decide"
    /\ params.state = "present"
    /\ corrupt
    /\ exists' = FALSE
    /\ corrupt' = FALSE
    /\ changed' = TRUE
    /\ UNCHANGED <<fn, input, console, remote, run, pc, params, osn, classified, expected,
                   new_osn, diff, calls, history, failures>>

\* Mutant of DeleteCorrupt: whatever entry exists is deleted first.
DeleteCorrupt_any ==
    /\ pc = "decide"
    /\ params.state = "present"
    /\ exists
    /\ calls' = Append(calls, Call("delete_ext_ordering_service_node", osn["id"], TRUE))
    /\ remote' = Absent
    /\ exists' = FALSE
    /\ corrupt' = FALSE
    /\ changed' = TRUE
    /\ UNCHANGED <<fn, input, console, run, pc, params, osn, classified, expected, new_osn,
                   diff, history, failures>>

\* The node is corrupt: delete it first.
DeleteCorrupt ==
    /\ pc = "decide"
    /\ params.state = "present"
    /\ corrupt
    /\ calls' = Append(calls, Call("delete_ext_ordering_service_node", osn["id"], TRUE))
    /\ remote' = Absent
    /\ exists' = FALSE
    /\ corrupt' = FALSE
    /\ changed' = TRUE
    /\ UNCHANGED <<fn, input, console, run, pc, params, osn, classified, expected, new_osn,
                   diff, history, failures>>

---------------------------------------------------------------------------
(* The create path                                                          *)

\* The default set of resources defined in main().
default_resources ==
    [type |-> S("dict"), default |-> D(E),
     options |-> D([
        orderer |-> D([type |-> S("dict"), default |-> D(E), options |-> D([
            requests |-> D([type |-> S("dict"), default |-> D(E), options |-> D([
                cpu |-> D([type |-> S("str"), default |-> S("250m")]),
                memory |-> D([type |-> S("str"), default |-> S("500M")])])])])]),
        proxy |-> D([type |-> S("dict"), default |-> D(E), options |-> D([
            requests |-> D([type |-> S("dict"), default |-> D(E), options |-> D([
                cpu |-> D([type |-> S("str"), default |-> S("100m")]),
                memory |-> D([type |-> S("str"), default |-> S("200M")])])])])])])]

\* The argument checks of the second BlockchainModule(...) in main():
\* required_if, required_one_of, required_together, mutually_exclusive.
\* enrollment_id and enrollment_secret accompany certificate_authority.
ValidationError(p) ==
    IF ~IsNone(p.certificate_authority) /\ ~IsNone(p.crypto)
    THEN S("parameters are mutually exclusive: certificate_authority|crypto")
    ELSE IF IsNone(p.msp_id) \/ IsNone(p.ordering_service)
    THEN S("state is present but all of the following are missing: msp_id, ordering_service")
    ELSE IF IsNone(p.certificate_authority) # IsNone(p.admins)
    THEN S("parameters are required together: certificate_authority, admins")
    ELSE IF IsNone(p.certificate_authority) /\ IsNone(p.crypto)
    THEN S("one of the following is required: certificate_authority, crypto")
    ELSE None

\* HACK: strip out the storage class if it is not specified.
strip_storage_class(storage) ==
    [t \in DOMAIN storage |->
        IF IsDict(storage[t]) /\ "class" \in DOMAIN storage[t].d /\ IsNone(storage[t].d["class"])
        THEN D(Del(storage[t].d, "class"))
        ELSE storage[t]]

hsm_config_override(hsm) ==
    [General |-> D([BCCSP |-> D([Default |-> S("PKCS11"),
        PKCS11 |-> D([Label |-> hsm.d["label"], Pin |-> hsm.d["pin"]])])])]

\* utils.get_certificate_authority_by_module: the certificate authority the
\* parameter names; there is none to look up when the parameter is not given.
certificate_authority_known(p) == ~IsNone(p.certificate_authority)

get_crypto_enrollment_ca_config(p, ca_name) ==
    D([host |-> S("ca.example.org"), port |-> S("7054"), name |-> S(ca_name),
       tls_cert |-> S("ca-pem"), enroll_id |-> S("enrollid"),
       enroll_secret |-> S("enrollsecret")])

get_crypto(p) ==
    D([enrollment |-> D([
        component |-> D([admincerts |-> p.admins]),
        ca |-> get_crypto_enrollment_ca_config(p, "ca"),
        tlsca |-> get_crypto_enrollment_ca_config(p, "tlsca")])])

\* Mutant of create_payload: config_override and zone are sent twice over.
create_payload_doubled(p, free) ==
    LET resources == merge_param(copy_dict(default_resources), p.resources)
        storage == strip_storage_class(p.storage.d)
        e0 == [display_name |-> p.name, cluster_id |-> S("cluster1"),
               cluster_name |-> S("Ordering Service"), msp_id |-> p.msp_id,
               orderer_type |-> p.orderer_type,
               system_channel_id |-> p.system_channel_id,
               config_override |-> L(<<p.config_override, p.config_override>>),
               resources |-> D(resources), storage |-> D(storage)]
        e1 == IF free THEN Del(Del(e0, "resources"), "storage") ELSE e0
        e3 == IF IsNone(p.zone) THEN e1 ELSE Put(e1, "zone", L(<<p.zone, p.zone>>))
        e4 == IF IsNone(p.version) THEN e3
              ELSE Put(e3, "version", S(resolve_ordering_service_node_version(p.version.s)))
    IN  Put(e4, "crypto", L(<<get_crypto(p)>>))

\* expected_ordering_service_node as main() assembles it for the create call,
\* up to and including the wrapping of config_override, zone and crypto.
create_payload(p, free) ==
    LET resources == merge_param(copy_dict(default_resources), p.resources)
        storage == strip_storage_class(p.storage.d)
        e0 == [display_name |-> p.name, cluster_id |-> S("cluster1"),
               cluster_name |-> S("Ordering Service"), msp_id |-> p.msp_id,
               orderer_type |-> p.orderer_type,
               system_channel_id |-> p.system_channel_id,
               config_override |-> p.config_override,
               resources |-> D(resources), storage |-> D(storage)]
        e1 == IF free THEN Del(Del(e0, "resources"), "storage") ELSE e0
        e2 == IF IsNone(p.hsm) THEN e1
              ELSE LET e == IF Truthy(Get(p.hsm.d, "pkcs11endpoint", None))
                            THEN Put(e1, "hsm", D([pkcs11endpoint |-> p.hsm.d["pkcs11endpoint"]]))
                            ELSE e1
                   IN  Put(e, "config_override",
                           D(merge_dicts(e["config_override"].d, hsm_config_override(p.hsm))))
        e3 == IF IsNone(p.zone) THEN e2 ELSE Put(e2, "zone", p.zone)
        e4 == IF IsNone(p.version) THEN e3
              ELSE Put(e3, "version", S(resolve_ordering_service_node_version(p.version.s)))
        e5 == Put(e4, "config_override", L(<<e4["config_override"]>>))
        e6 == IF IsNone(p.zone) THEN e5 ELSE Put(e5, "zone", L(<<p.zone>>))
    IN  Put(e6, "crypto", L(<<get_crypto(p)>>))

\* Calls main() makes while it assembles the create request.
create_reads(p) ==
    <<Call("get_ordering_service_by_module", p.ordering_service, TRUE),
      Call("is_free_cluster", None, TRUE)>>
    \o (IF IsNone(p.version) THEN <<>>
        ELSE <<Call("resolve_ordering_service_node_version", p.version, TRUE)>>)
    \o <<Call("get_certificate_authority_by_module", p.certificate_authority, TRUE)>>

\* state=present and no node: validate the parameters and build the request.
CreatePrepare ==
    /\ pc = "decide"
    /\ params.state = "present"
    /\ ~exists
    /\ changed' = FALSE
    /\ params' = argument_defaults(input)
    /\ LET p == argument_defaults(input)
           lookup == Call("get_ordering_service_by_module", p.ordering_service, TRUE)
       IN  IF ~IsNone(ValidationError(p))
           THEN /\ Leave(fail_json(ValidationError(p)), Append(calls, lookup))
                /\ UNCHANGED expected
           ELSE IF ~certificate_authority_known(p)
           THEN /\ Leave(fail_json(S("The certificate authority is not valid")),
                         calls \o SubSeq(create_reads(p), 1, Len(create_reads(p)) - 1))
                /\ UNCHANGED expected
           ELSE /\ calls' = calls \o create_reads(p)
                /\ expected' = create_payload(p, console.free)
                /\ pc' = "create"
                /\ UNCHANGED history
    /\ UNCHANGED <<fn, input, console, remote, run, osn, exists, corrupt, classified,
                   new_osn, diff, failures>>

\* The node the console deploys for a create request.
created_node(payload, fin) ==
    LET certs == payload["crypto"].l[1].d["enrollment"].d["component"].d["admincerts"]
        n0 == [k \in (DOMAIN payload) \ {"zone", "hsm"} |->
                 IF k \in {"config_override", "crypto"} THEN payload[k].l[1] ELSE payload[k]]
        n1 == n0 @@ [id |-> S("osn2"), resources |-> console_resources,
                     version |-> S("2.2.1"), consenter_proposal_fin |-> B(fin)]
    IN  IF IsList(certs) THEN Put(n1, "admin_certs", certs) ELSE n1

\* Create the ordering service (node).
\* Mutant of Create: the request is sent twice.
Create_twice ==
    /\ pc = "create"
    /\ \E fin \in BOOLEAN :
          /\ remote' = created_node(expected, fin)
          /\ osn' = created_node(expected, fin)
    /\ calls' = calls \o <<Call("create_ordering_service", D(expected), TRUE),
                            Call("create_ordering_service", D(expected), TRUE)>>
    /\ changed' = TRUE
    /\ pc' = "wait"
    /\ UNCHANGED <<fn, input, console, run, params, exists, corrupt, classified, expected,
                   new_osn, diff, history, failures>>

\* Mutant of Create: the run goes on to the admin certificates.
Create_then_admins ==
    /\ pc = "create"
    /\ \E fin \in BOOLEAN :
          /\ remote' = created_node(expected, fin)
          /\ osn' = created_node(expected, fin)
    /\ calls' = Append(calls, Call("create_ordering_service", D(expected), TRUE))
    /\ changed' = TRUE
    /\ pc' = "admins"
    /\ UNCHANGED <<fn, input, console, run, params, exists, corrupt, classified, expected,
                   new_osn, diff, history, failures>>

\* Mutant of Create: the flag stays as the reset before the create path
\* left it.
Create_unflagged ==
    /\ pc = "create"
    /\ \E fin \in BOOLEAN :
          /\ remote' = created_node(expected, fin)
          /\ osn' = created_node(expected, fin)
    /\ calls' = Append(calls, Call("create_ordering_service", D(expected), TRUE))
    /\ pc' = "wait"
    /\ UNCHANGED <<fn, input, console, run, params, exists, corrupt, classified, changed,
                   expected, new_osn, diff, history, failures>>

\* Create the ordering service node.
Create ==
    /\ pc = "create"
    /\ \E fin \in BOOLEAN :
          /\ remote' = created_node(expected, fin)
          /\ osn' = created_node(expected, fin)
    /\ calls' = Append(calls, Call("create_ordering_service", D(expected), TRUE))
    /\ changed' = TRUE
    /\ pc' = "wait"
    /\ UNCHANGED <<fn, input, console, run, params, exists, corrupt, classified, expected,
                   new_osn, diff, history, failures>>

---------------------------------------------------------------------------
(* The update path                                                          *)

\* HACK: never send the limits or the init resources back.
strip_rejected_resources(node) ==
    LET res == node["resources"].d
        r1 == [t \in DOMAIN res |->
                 IF t \in {"orderer", "proxy"} /\ IsDict(res[t]) /\ "limits" \in DOMAIN res[t].d
                 THEN D(Del(res[t].d, "limits"))
                 ELSE res[t]]
    IN  Put(node, "resources", D(Del(r1, "init")))

\* Mutant of update_overlay: an unset version becomes the latest version.
update_overlay_latest(p) ==
    LET all == [config_override |-> p.config_override, resources |-> p.resources,
                crypto |-> p.crypto, version |-> p.version]
        set == [k \in {x \in DOMAIN all : ~IsNone(all[x])} |-> all[k]]
    IN  IF IsNone(p.version) THEN Put(set, "version", S(resolve_peer_version(">=2.2")))
        ELSE Put(set, "version", S(resolve_peer_version(p.version.s)))

\* Mutant of update_overlay: the MSP ID is part of the overlay too.
update_overlay_msp_id(p) ==
    LET all == [config_override |-> p.config_override, resources |-> p.resources,
                crypto |-> p.crypto, version |-> p.version]
        set == [k \in {x \in DOMAIN all : ~IsNone(all[x])} |-> all[k]]
        msp == Put(set, "msp_id", p.msp_id)
    IN  IF IsNone(p.version) THEN msp
        ELSE Put(msp, "version", S(resolve_peer_version(p.version.s)))

\* expected_ordering_service_node of the update path: only what was set.
update_overlay(p) ==
    LET all == [config_override |-> p.config_override, resources |-> p.resources,
                crypto |-> p.crypto, version |-> p.version]
        set == [k \in {x \in DOMAIN all : ~IsNone(all[x])} |-> all[k]]
    IN  IF IsNone(p.version) THEN set
        ELSE Put(set, "version", S(resolve_peer_version(p.version.s)))

permitted_changes == {"resources", "config_override", "version", "crypto"}

\* The changes of a diff that main() refuses.
banned_changes(d) == {change \in DOMAIN d : change \notin permitted_changes}

\* The exception raised for a banned change.
banned_message(change, old, new) ==
    [change |-> change, from |-> old[change], to |-> new[change],
     text |-> "cannot be changed for existing ordering service node"]

\* Mutant of update_payload: the resources as the caller gave them.
update_payload_as_given(p, d, new) ==
    IF ~IsNone(p.resources) THEN Put(d, "resources", p.resources) ELSE d

\* Mutant of update_payload: the diff alone.
update_payload_diff_only(p, d, new) == d

\* The update request: the diff, with the whole of resources when the
\* caller supplied resources.
update_payload(p, d, new) ==
    IF ~IsNone(p.resources) THEN Put(d, "resources", new["resources"]) ELSE d

\* state=present and the node exists: work out the update.
UpdatePrepare ==
    /\ pc = "decide"
    /\ params.state = "present"
    /\ exists
    /\ ~corrupt
    /\ changed' = FALSE
    /\ LET node == strip_rejected_resources(osn)
           overlay == update_overlay(params)
           new == merge_dicts(copy_dict(node), overlay)
           d == diff_dicts(node, new)
           cs == IF IsNone(params.version) THEN calls
                 ELSE Append(calls, Call("resolve_peer_version", params.version, TRUE))
       IN  /\ osn' = node
           /\ expected' = overlay
           /\ new_osn' = new
           /\ IF banned_changes(d) # {}
              THEN /\ Leave(fail_json(banned_message(CHOOSE c \in banned_changes(d) : TRUE,
                                                     node, new)), cs)
                   /\ diff' = d
              ELSE /\ diff' = update_payload(params, d, new)
                   /\ calls' = cs
                   /\ pc' = "update"
                   /\ UNCHANGED history
    /\ UNCHANGED <<fn, input, console, remote, run, params, exists, corrupt, classified,
                   failures>>

\* The console applies an update request to the node it holds.
updated_node(node, payload) ==
    [k \in (DOMAIN node) \cup (DOMAIN payload) |->
        IF k \in DOMAIN payload THEN payload[k] ELSE node[k]]

ordering_service_node_changed == ~equal_dicts(osn, new_osn)

\* If the ordering service node has changed, apply the changes.
ApplyUpdate ==
    /\ pc = "update"
    /\ IF ordering_service_node_changed
       THEN /\ calls' = Append(calls, Call("update_ordering_service_node", D(diff), TRUE))
            /\ remote' = updated_node(remote, diff)
            /\ osn' = updated_node(remote, diff)
            /\ changed' = TRUE
       ELSE UNCHANGED <<calls, remote, osn, changed>>
    /\ pc' = "admins"
    /\ UNCHANGED <<fn, input, console, run, params, exists, corrupt, classified, expected,
                   new_osn, diff, history, failures>>

---------------------------------------------------------------------------
(* Admin certificates                                                       *)

crypto_admincerts(crypto, config_type) ==
    LET config == Get(crypto.d, config_type, D(E))
        component == Get(config.d, "component", D(E))
    IN  Get(component.d, "admincerts", None)

\* Mutant of expected_admins: the crypto msp admincerts come before the
\* crypto enrollment admincerts.
expected_admins_msp_first(p) ==
    IF Truthy(p.admins) THEN p.admins
    ELSE IF ~Truthy(p.crypto) THEN p.admins
    ELSE IF Truthy(crypto_admincerts(p.crypto, "msp"))
         THEN crypto_admincerts(p.crypto, "msp")
         ELSE crypto_admincerts(p.crypto, "enrollment")

\* The admin certs the caller wants: admins, else the crypto enrollment
\* admincerts, else the crypto msp admincerts.
expected_admins(p) ==
    IF Truthy(p.admins) THEN p.admins
    ELSE IF ~Truthy(p.crypto) THEN p.admins
    ELSE IF Truthy(crypto_admincerts(p.crypto, "enrollment"))
         THEN crypto_admincerts(p.crypto, "enrollment")
         ELSE crypto_admincerts(p.crypto, "msp")

actual_admins(node) == Get(node, "admin_certs", None)

admins_comparable(p, node) ==
    Truthy(expected_admins(p)) /\ ~IsNone(actual_admins(node))

\* Mutant of append_admin_certs: the certificates are compared as given.
append_admin_certs_raw(p, node) ==
    Range(expected_admins(p).l) \ Range(actual_admins(node).l)

append_admin_certs(p, node) ==
    normalized_set(expected_admins(p).l) \ normalized_set(actual_admins(node).l)

remove_admin_certs(p, node) ==
    normalized_set(actual_admins(node).l) \ normalized_set(expected_admins(p).l)

admin_edit_needed(p, node) ==
    /\ admins_comparable(p, node)
    /\ (append_admin_certs(p, node) # {} \/ remove_admin_certs(p, node) # {})

SetToSeq(set) == CHOOSE q \in [1..Cardinality(set) -> set] : Range(q) = set

\* The console applies an admin certificate edit to the node it holds.
edited_admin_certs(node, append, remove) ==
    LET kept == SelectSeq(Get(node, "admin_certs", L(<<>>)).l,
                          LAMBDA c : normalize_whitespace(c) \notin remove)
    IN  Put(node, "admin_certs", L(kept \o SetToSeq(append \ normalized_set(kept))))

\* Compare the list of admin certs and edit them if they differ.
AdminCerts ==
    /\ pc = "admins"
    /\ IF admin_edit_needed(params, osn)
       THEN /\ calls' = Append(calls, Call("edit_admin_certs",
                                  [id |-> osn["id"],
                                   append |-> append_admin_certs(params, osn),
                                   remove |-> remove_admin_certs(params, osn)], TRUE))
            /\ remote' = edited_admin_certs(remote, append_admin_certs(params, osn),
                                            remove_admin_certs(params, osn))
            /\ changed' = TRUE
       ELSE UNCHANGED <<calls, remote, changed>>
    /\ pc' = "join"
    /\ UNCHANGED <<fn, input, console, run, params, osn, exists, corrupt, classified,
                   expected, new_osn, diff, history, failures>>

---------------------------------------------------------------------------
(* Joining the system channel                                               *)

\* Mutant of config_block_due: consenter_proposal_fin is not consulted.
config_block_due_always(p, node) == Truthy(p.config_block)

config_block_due(p, node) ==
    ~node["consenter_proposal_fin"].b /\ Truthy(p.config_block)

b64encode(file) == S("base64:" \o file.s)

\* Mutant of SubmitConfigBlock: the node is waited for before the block is sent.
SubmitConfigBlock_after_wait ==
    /\ pc = "join"
    /\ IF config_block_due(params, osn)
       THEN /\ calls' = calls \o <<Call("wait_for", params.wait_timeout, TRUE),
                                   Call("submit_config_block",
                                        [id |-> osn["id"],
                                         block |-> b64encode(params.config_block)], TRUE)>>
            /\ pc' = "mark"
       ELSE /\ pc' = "wait"
            /\ UNCHANGED calls
    /\ UNCHANGED <<fn, input, console, remote, run, params, history, failures>>
    /\ UNCHANGED Locals

\* Mutant of SubmitConfigBlock: the node is marked without the block being sent.
SubmitConfigBlock_unsent ==
    /\ pc = "join"
    /\ IF config_block_due(params, osn)
       THEN pc' = "mark"
       ELSE pc' = "wait"
    /\ UNCHANGED <<fn, input, console, remote, run, params, calls, history, failures>>
    /\ UNCHANGED Locals

\* Submit the config block to a node that has not joined yet.
SubmitConfigBlock ==
    /\ pc = "join"
    /\ IF config_block_due(params, osn)
       THEN /\ calls' = Append(calls, Call("submit_config_block",
                                  [id |-> osn["id"], block |-> b64encode(params.config_block)],
                                  TRUE))
            /\ pc' = "mark"
       ELSE /\ pc' = "wait"
            /\ UNCHANGED calls
    /\ UNCHANGED <<fn, input, console, remote, run, params, history, failures>>
    /\ UNCHANGED Locals

\* Mutant of MarkJoined: the console does not keep the mark.
MarkJoined_unkept ==
    /\ pc = "mark"
    /\ calls' = Append(calls, Call("edit_ordering_service_node",
                          [id |-> osn["id"], consenter_proposal_fin |-> B(TRUE)], TRUE))
    /\ osn' = Put(remote, "consenter_proposal_fin", B(TRUE))
    /\ changed' = TRUE
    /\ pc' = "wait"
    /\ UNCHANGED <<fn, input, console, remote, run, params, exists, corrupt, classified,
                   expected, new_osn, diff, history, failures>>

\* Edit the ordering service node: it has joined.
MarkJoined ==
    /\ pc = "mark"
    /\ calls' = Append(calls, Call("edit_ordering_service_node",
                          [id |-> osn["id"], consenter_proposal_fin |-> B(TRUE)], TRUE))
    /\ remote' = Put(remote, "consenter_proposal_fin", B(TRUE))
    /\ osn' = Put(remote, "consenter_proposal_fin", B(TRUE))
    /\ changed' = TRUE
    /\ pc' = "wait"
    /\ UNCHANGED <<fn, input, console, run, params, exists, corrupt, classified, expected,
                   new_osn, diff, history, failures>>

---------------------------------------------------------------------------
(* Waiting and returning                                                    *)

\* What the module returns of a node (RETURN).
extract_ordering_service_node_info(node) ==
    [name |-> node["display_name"], msp_id |-> node["msp_id"],
     system_channel_id |-> node["system_channel_id"],
     cluster_id |-> node["cluster_id"], cluster_name |-> node["cluster_name"],
     consenter_proposal_fin |-> node["consenter_proposal_fin"]]

\* Mutant of WaitAndExit: the wait does not depend on consenter_proposal_fin.
WaitAndExit_always ==
    /\ pc = "wait"
    /\ Leave(exit_json(changed, D(extract_ordering_service_node_info(osn))),
             Append(calls, Call("wait_for", params.wait_timeout, TRUE)))
    /\ UNCHANGED <<fn, input, console, remote, run, params, failures>>
    /\ UNCHANGED Locals

\* Wait for the node, if it has joined the system channel, and return it.
WaitAndExit ==
    /\ pc = "wait"
    /\ LET info == extract_ordering_service_node_info(osn)
           cs == IF info.consenter_proposal_fin.b
                 THEN Append(calls, Call("wait_for", params.wait_timeout, TRUE))
                 ELSE calls
       IN  Leave(exit_json(changed, D(info)), cs)
    /\ UNCHANGED <<fn, input, console, remote, run, params, failures>>
    /\ UNCHANGED Locals

---------------------------------------------------------------------------
(* Failing remote calls, and the next run                                   *)

\* The remote call the run is about to make, "none" when the next step
\* makes no call.
PendingCall ==
    CASE pc = "start" -> "get_component_by_display_name"
      [] pc = "free" -> "is_free_cluster"
      [] pc = "decide" ->
            IF params.state = "absent"
            THEN (IF exists THEN "delete_ordering_service_node" ELSE "none")
            ELSE IF corrupt THEN "delete_ext_ordering_service_node"
            ELSE IF ~exists THEN "get_ordering_service_by_module"
            ELSE IF ~IsNone(params.version) THEN "resolve_peer_version"
            ELSE "none"
      [] pc = "create" -> "create_ordering_service"
      [] pc = "update" ->
            IF ordering_service_node_changed THEN "update_ordering_service_node" ELSE "none"
      [] pc = "admins" ->
            IF admin_edit_needed(params, osn) THEN "edit_admin_certs" ELSE "none"
      [] pc = "join" ->
            IF config_block_due(params, osn) THEN "submit_config_block" ELSE "none"
      [] pc = "mark" -> "edit_ordering_service_node"
      [] pc = "wait" ->
            IF osn["consenter_proposal_fin"].b THEN "wait_for" ELSE "none"
      [] OTHER -> "none"

\* Mutant of RemoteFails: the failed call is tried again.
RemoteFails_retried ==
    /\ failures < MaxFailures
    /\ PendingCall # "none"
    /\ failures' = failures + 1
    /\ calls' = Append(calls, Call(PendingCall, None, FALSE))
    /\ UNCHANGED <<fn, input, console, remote, run, pc, params, history>>
    /\ UNCHANGED Locals

\* A remote call raises: the exception reaches fail_json.
RemoteFails ==
    /\ failures < MaxFailures
    /\ PendingCall # "none"
    /\ failures' = failures + 1
    /\ Leave(fail_json(S(PendingCall)), Append(calls, Call(PendingCall, None, FALSE)))
    /\ UNCHANGED <<fn, input, console, remote, run, params>>
    /\ UNCHANGED Locals

\* main() is run again with the same parameters: a new process, whose only
\* link to the runs before it is the console.
Restart ==
    /\ pc \in {"done", "failed"}
    /\ run' = run + 1
    /\ pc' = "start"
    /\ params' = argument_defaults(input)
    /\ osn' = None
    /\ exists' = FALSE
    /\ corrupt' = FALSE
    /\ classified' = "unknown"
    /\ changed' = FALSE
    /\ expected' = None
    /\ new_osn' = None
    /\ diff' = None
    /\ calls' = <<>>
    /\ UNCHANGED <<fn, input, console, remote, history, failures>>

StartRun ==
    /\ run < MaxRuns
    /\ Restart

Next ==
    \/ Fetch
    \/ FreeCluster
    \/ DeleteNode
    \/ NothingToDelete
    \/ DeleteCorrupt
    \/ CreatePrepare
    \/ Create
    \/ UpdatePrepare
    \/ ApplyUpdate
    \/ AdminCerts
    \/ SubmitConfigBlock
    \/ MarkJoined
    \/ WaitAndExit
    \/ RemoteFails
    \/ StartRun

Spec == Init /\ [][Next]_vars

---------------------------------------------------------------------------
(* Recovery: a state=present run in which one remote call may fail, followed *)
(* by runs of the same parameters in which no call fails.                    *)

InitRecover ==
    /\ Init
    /\ input.state = "present"

\* A remote call of the first run raises.
FirstRunFails ==
    /\ run = 1
    /\ RemoteFails

StartRecoveryRun ==
    /\ run < MaxRecoveryRuns
    /\ Restart

NextRecover ==
    \/ Fetch
    \/ FreeCluster
    \/ DeleteCorrupt
    \/ CreatePrepare
    \/ Create
    \/ UpdatePrepare
    \/ ApplyUpdate
    \/ AdminCerts
    \/ SubmitConfigBlock
    \/ MarkJoined
    \/ WaitAndExit
    \/ FirstRunFails
    \/ StartRecoveryRun

SpecRecover == InitRecover /\ [][NextRecover]_vars

---------------------------------------------------------------------------
(* plugins/module_utils/msp_utils.py: an Organization as an MSP             *)
(* configuration tree, and back.  The functions are pure; SpecMsp applies   *)
(* them to organizations, flags and extra policies drawn from small sets.   *)
(* A tree is a tagged mapping D(...), an integer is [i |-> n].              *)

I(n) == [i |-> n]

\* organizations.Organization: the value object built by msp_to_organization.
Organization(name, msp_id, root_certs, intermediate_certs, admins, revocation_list, tls_root_certs, tls_intermediate_certs, fabric_node_ous, organizational_unit_identifiers, signing_identity) ==
    [name |-> name, msp_id |-> msp_id, root_certs |-> root_certs,
     intermediate_certs |-> intermediate_certs, admins |-> admins,
     revocation_list |-> revocation_list, tls_root_certs |-> tls_root_certs,
     tls_intermediate_certs |-> tls_intermediate_certs,
     fabric_node_ous |-> fabric_node_ous,
     organizational_unit_identifiers |-> organizational_unit_identifiers,
     signing_identity |-> signing_identity]

get_default_admins_policy(organization) ==
    D([type |-> I(1),
       value |-> D([identities |-> L(<<D([principal |-> D([msp_identifier |-> organization.msp_id,
                                                           role |-> S("ADMIN")]),
                                         principal_classification |-> S("ROLE")])>>),
                    rule |-> D([n_out_of |-> D([n |-> I(1),
                                                rules |-> L(<<D([signed_by |-> I(0)])>>)])])])])

get_default_readers_policy(organization) ==
    D([type |-> I(1),
       value |-> D([identities |-> L(<<D([principal |-> D([msp_identifier |-> organization.msp_id,
                                                           role |-> S("MEMBER")]),
                                         principal_classification |-> S("ROLE")])>>),
                    rule |-> D([n_out_of |-> D([n |-> I(1),
                                                rules |-> L(<<D([signed_by |-> I(0)])>>)])])])])

\* Mutation of get_default_writers_policy: the principal names another MSP.
get_default_writers_policy_foreign(organization) ==
    D([type |-> I(1),
       value |-> D([identities |-> L(<<D([principal |-> D([msp_identifier |-> S("OtherMSP"),
                                                           role |-> S("MEMBER")]),
                                         principal_classification |-> S("ROLE")])>>),
                    rule |-> D([n_out_of |-> D([n |-> I(1),
                                                rules |-> L(<<D([signed_by |-> I(0)])>>)])])])])

get_default_writers_policy(organization) ==
    D([type |-> I(1),
       value |-> D([identities |-> L(<<D([principal |-> D([msp_identifier |-> organization.msp_id,
                                                           role |-> S("MEMBER")]),
                                         principal_classification |-> S("ROLE")])>>),
                    rule |-> D([n_out_of |-> D([n |-> I(1),
                                                rules |-> L(<<D([signed_by |-> I(0)])>>)])])])])

get_default_endorsement_policy(organization) ==
    D([type |-> I(1),
       value |-> D([identities |-> L(<<D([principal |-> D([msp_identifier |-> organization.msp_id,
                                                           role |-> S("MEMBER")]),
                                         principal_classification |-> S("ROLE")])>>),
                    rule |-> D([n_out_of |-> D([n |-> I(1),
                                                rules |-> L(<<D([signed_by |-> I(0)])>>)])])])])

\* Mutation of msp_config: the TLS root certificates are written from the
\* root certificates.
msp_config_tls_from_root(organization) ==
    D([admins |-> organization.admins,
       crypto_config |-> D([identity_identifier_hash_function |-> S("SHA256"),
                            signature_hash_family |-> S("SHA2")]),
       fabric_node_ous |-> organization.fabric_node_ous,
       intermediate_certs |-> organization.intermediate_certs,
       name |-> organization.msp_id,
       organizational_unit_identifiers |-> organization.organizational_unit_identifiers,
       revocation_list |-> organization.revocation_list,
       root_certs |-> organization.root_certs,
       signing_identity |-> None,
       tls_intermediate_certs |-> organization.tls_intermediate_certs,
       tls_root_certs |-> organization.root_certs])

\* values.MSP.value.config of the tree organization_to_msp builds.
msp_config(organization) ==
    D([admins |-> organization.admins,
       crypto_config |-> D([identity_identifier_hash_function |-> S("SHA256"),
                            signature_hash_family |-> S("SHA2")]),
       fabric_node_ous |-> organization.fabric_node_ous,
       intermediate_certs |-> organization.intermediate_certs,
       name |-> organization.msp_id,
       organizational_unit_identifiers |-> organization.organizational_unit_identifiers,
       revocation_list |-> organization.revocation_list,
       root_certs |-> organization.root_certs,
       signing_identity |-> None,
       tls_intermediate_certs |-> organization.tls_intermediate_certs,
       tls_root_certs |-> organization.tls_root_certs])

\* Mutant of organization_to_msp: a default policy is kept when the caller
\* passes a policy of the same name.
organization_to_msp_defaults_kept(organization, endorsement_policy_required, policies) ==
    LET entry(policy) == D([mod_policy |-> S("Admins"), policy |-> policy])
        initial == [Admins |-> entry(get_default_admins_policy(organization)),
                    Readers |-> entry(get_default_readers_policy(organization)),
                    Writers |-> entry(get_default_writers_policy(organization))]
        endorsed == IF endorsement_policy_required
                    THEN Put(initial, "Endorsement",
                             entry(get_default_endorsement_policy(organization)))
                    ELSE initial
        added == [policyName \in (DOMAIN endorsed) \cup (DOMAIN policies) |->
                    IF policyName \in DOMAIN endorsed THEN endorsed[policyName]
                    ELSE entry(policies[policyName])]
    IN  D([groups |-> D(E),
           mod_policy |-> S("Admins"),
           policies |-> D(added),
           values |-> D([MSP |-> D([mod_policy |-> S("Admins"),
                                    value |-> D([config |-> msp_config(organization),
                                                 type |-> I(0)])])])])

\* policies is a function from policy names to policies (a Python dict).
organization_to_msp(organization, endorsement_policy_required, policies) ==
    LET entry(policy) == D([mod_policy |-> S("Admins"), policy |-> policy])
        initial == [Admins |-> entry(get_default_admins_policy(organization)),
                    Readers |-> entry(get_default_readers_policy(organization)),
                    Writers |-> entry(get_default_writers_policy(organization))]
        endorsed == IF endorsement_policy_required
                    THEN Put(initial, "Endorsement",
                             entry(get_default_endorsement_policy(organization)))
                    ELSE initial
        added == [policyName \in (DOMAIN endorsed) \cup (DOMAIN policies) |->
                    IF policyName \in DOMAIN policies THEN entry(policies[policyName])
                    ELSE endorsed[policyName]]
    IN  D([groups |-> D(E),
           mod_policy |-> S("Admins"),
           policies |-> D(added),
           values |-> D([MSP |-> D([mod_policy |-> S("Admins"),
                                    value |-> D([config |-> msp_config(organization),
                                                 type |-> I(0)])])])])

\* Subscripting a dict with a key it does not hold raises Python's KeyError.
KeyError(key) == [raised |-> "KeyError", key |-> key]
Returned(value) == [raised |-> "nothing", value |-> value]

\* The keys msp_to_organization reads from the config, in the order it reads them.
config_reads ==
    <<"root_certs", "intermediate_certs", "admins", "revocation_list", "tls_root_certs",
      "tls_intermediate_certs", "fabric_node_ous", "organizational_unit_identifiers">>

msp_to_organization(msp_id, msp) ==
    IF "values" \notin DOMAIN msp.d THEN KeyError("values")
    ELSE IF "MSP" \notin DOMAIN msp.d["values"].d THEN KeyError("MSP")
    ELSE LET msp_value == msp.d["values"].d["MSP"]
         IN  IF "value" \notin DOMAIN msp_value.d THEN KeyError("value")
             ELSE IF "config" \notin DOMAIN msp_value.d["value"].d THEN KeyError("config")
             ELSE LET msp_config_ == msp_value.d["value"].d["config"].d
                      missing == {i \in DOMAIN config_reads :
                                    config_reads[i] \notin DOMAIN msp_config_}
                  IN  IF missing # {}
                      THEN KeyError(config_reads[CHOOSE i \in missing :
                                                   \A j \in missing : i <= j])
                      ELSE Returned(Organization(msp_id, msp_id,
                               msp_config_["root_certs"], msp_config_["intermediate_certs"],
                               msp_config_["admins"], msp_config_["revocation_list"],
                               msp_config_["tls_root_certs"],
                               msp_config_["tls_intermediate_certs"],
                               msp_config_["fabric_node_ous"],
                               msp_config_["organizational_unit_identifiers"], None))

\* The organizations, extra policies and trees explored.
Organizations ==
    { Organization(S("Orderer Org"), msp_id, L(<<"root1">>), intermediate_certs, admins,
                   L(<<"crl1">>), L(<<"tlsroot1">>), L(<<"tlsint1">>), fabric_node_ous,
                   organizational_unit_identifiers, None) :
        msp_id \in {S("OrdererOrgMSP"), S("Org1MSP")},
        intermediate_certs \in {L(<<>>), L(<<"int1">>)},
        admins \in {L(<<>>), L(<<"admin1", "admin2">>)},
        fabric_node_ous \in {None, D([enable |-> B(TRUE)])},
        organizational_unit_identifiers \in {L(<<>>), L(<<"ou1">>)} }

\* A policy a caller may pass: two of two signatures.
custom_policy ==
    D([type |-> I(1),
       value |-> D([identities |-> L(<<D([principal |-> D([msp_identifier |-> S("Org1MSP"),
                                                           role |-> S("ADMIN")]),
                                         principal_classification |-> S("ROLE")]),
                                       D([principal |-> D([msp_identifier |-> S("Org2MSP"),
                                                           role |-> S("ADMIN")]),
                                         principal_classification |-> S("ROLE")])>>),
                    rule |-> D([n_out_of |-> D([n |-> I(2),
                                                rules |-> L(<<D([signed_by |-> I(0)]),
                                                              D([signed_by |-> I(1)])>>)])])])])

\* A policy a caller may pass that no signature set satisfies: two of one
\* rule, signed by an identity that is not listed.
unsatisfiable_policy ==
    D([type |-> I(1),
       value |-> D([identities |-> L(<<D([principal |-> D([msp_identifier |-> S("Org1MSP"),
                                                           role |-> S("ADMIN")]),
                                         principal_classification |-> S("ROLE")])>>),
                    rule |-> D([n_out_of |-> D([n |-> I(2),
                                                rules |-> L(<<D([signed_by |-> I(1)])>>)])])])])

PoliciesInputs ==
    { E, [Admins |-> custom_policy], [Lifecycle |-> custom_policy],
      [Endorsement |-> custom_policy, Lifecycle |-> custom_policy],
      [Lifecycle |-> unsatisfiable_policy] }

\* The tree with the mapping at the end of path lacking key.
RECURSIVE without(_, _, _)
without(tree, path, key) ==
    IF path = <<>> THEN D(Del(tree.d, key))
    ELSE D([tree.d EXCEPT ![Head(path)] = without(tree.d[Head(path)], Tail(path), key)])

\* The tree with a signing identity in its config, as a console may return it.
signed(msp) ==
    [msp EXCEPT !.d["values"].d["MSP"].d["value"].d["config"].d["signing_identity"] =
                    D([public_signer |-> S("signer1")])]

\* A built tree, the same tree with a signing identity, and the trees that
\* lack one step of values.MSP.value.config or one field of the config.
Trees(msp) ==
    { msp,
      signed(msp),
      without(msp, <<>>, "values"),
      without(msp, <<"values">>, "MSP"),
      without(msp, <<"values", "MSP">>, "value"),
      without(msp, <<"values", "MSP", "value">>, "config"),
      without(msp, <<"values", "MSP", "value", "config">>, "admins") }

main_vars == <<input, console, remote, run, pc, params, osn, exists, corrupt,
               classified, changed, expected, new_osn, diff, calls, history,
               failures>>

\* Mutant of new_object: a value equal to one built before is not built
\* again, the caller gets the reference of the earlier one.
new_object_interned(heap, value) ==
    IF \E r \in DOMAIN heap : heap[r] = value
    THEN [heap |-> heap, ref |-> CHOOSE r \in DOMAIN heap : heap[r] = value]
    ELSE [heap |-> Append(heap, value), ref |-> Len(heap) + 1]

\* return dict(...): the builder constructs its result at every call, so
\* the value is a new object of the heap and the caller gets its reference.
new_object(heap, value) ==
    [heap |-> Append(heap, value), ref |-> Len(heap) + 1]

Builders ==
    { "get_default_admins_policy", "get_default_readers_policy",
      "get_default_writers_policy", "get_default_endorsement_policy" }

default_policy(builder, organization) ==
    CASE builder = "get_default_admins_policy" -> get_default_admins_policy(organization)
      [] builder = "get_default_readers_policy" -> get_default_readers_policy(organization)
      [] builder = "get_default_writers_policy" -> get_default_writers_policy(organization)
      [] builder = "get_default_endorsement_policy" ->
            get_default_endorsement_policy(organization)

InitMsp ==
    /\ fn \in { [step |-> "start", organization |-> organization,
                 endorsement_policy_required |-> endorsement_policy_required,
                 policies |-> policies, msp |-> None, tree |-> None, result |-> None,
                 heap |-> <<>>, returned |-> <<>>, mutated |-> {}] :
                organization \in Organizations,
                endorsement_policy_required \in BOOLEAN,
                policies \in PoliciesInputs }
    /\ input = None /\ console = None /\ remote = Absent /\ run = 0 /\ pc = "idle"
    /\ params = None /\ osn = None /\ exists = FALSE /\ corrupt = FALSE
    /\ classified = "unknown" /\ changed = FALSE /\ expected = None /\ new_osn = None
    /\ diff = None /\ calls = <<>> /\ history = <<>> /\ failures = 0

BuildMsp ==
    /\ fn.step = "start"
    /\ fn' = [fn EXCEPT !.step = "built",
                        !.msp = organization_to_msp(fn.organization,
                                                    fn.endorsement_policy_required,
                                                    fn.policies)]
    /\ UNCHANGED main_vars

ParseMsp ==
    /\ fn.step = "built"
    /\ \E tree \in Trees(fn.msp) :
         fn' = [fn EXCEPT !.step = "parsed", !.tree = tree,
                          !.result = msp_to_organization(fn.organization.msp_id, tree)]
    /\ UNCHANGED main_vars

\* A caller calls one of the four default policy builders.
CallDefaultPolicy ==
    /\ fn.step \in {"start", "called"}
    /\ Len(fn.returned) < MaxPolicyCalls
    /\ \E builder \in Builders :
         LET made == new_object(fn.heap, default_policy(builder, fn.organization))
         IN  fn' = [fn EXCEPT !.step = "called",
                              !.heap = made.heap,
                              !.returned = Append(@, [builder |-> builder, ref |-> made.ref])]
    /\ UNCHANGED main_vars

\* The caller changes in place a policy it was returned: policy['type'] = 0.
MutateReturned ==
    /\ fn.step = "called"
    /\ fn.mutated = {}
    /\ \E i \in DOMAIN fn.returned :
         fn' = [fn EXCEPT !.heap[fn.returned[i].ref] = D(Put(@.d, "type", I(0))),
                          !.mutated = {i}]
    /\ UNCHANGED main_vars

NextMsp ==
    \/ BuildMsp
    \/ ParseMsp
    \/ CallDefaultPolicy
    \/ MutateReturned

SpecMsp == InitMsp /\ [][NextMsp]_vars

---------------------------------------------------------------------------
(* Properties                                                               *)

Finished == pc \in {"done", "failed"}

\* The outcome of the run that has just finished.
Outcome == history[Len(history)].outcome

Called(op) == \E i \in DOMAIN calls : calls[i].op = op

NoFailureIn(h) == \A i \in DOMAIN h.calls : h.calls[i].ok

\* The run has entered the update path (it has built new_ordering_service_node).
OnUpdatePath == ~IsNone(new_osn)

\* The run has entered the create path (it has built the create request).
OnCreatePath == Called("get_ordering_service_by_module")

\* C1: with state=present and no failing call, the second of two runs in a
\* row reports changed=false, issues no mutating call and returns the same
\* ordering_service_node as the first.
C1_SecondRunIdempotent ==
    (/\ input.state = "present"
     /\ Len(history) >= 2
     /\ ~history[1].outcome.failed /\ NoFailureIn(history[1])
     /\ ~history[2].outcome.failed /\ NoFailureIn(history[2]))
    => /\ ~history[2].outcome.changed
       /\ Mutations(history[2].calls) = <<>>
       /\ history[2].outcome.ordering_service_node
            = history[1].outcome.ordering_service_node

\* C2: with state=absent and no node found, the run issues no mutating call
\* and no readiness wait, and exits with changed=false and no
\* ordering_service_node.
C2_AbsentIsNoop ==
    (input.state = "absent" /\ classified = "absent")
    => /\ Mutations(calls) = <<>>
       /\ ~Called("wait_for")
       /\ (pc = "decide" => ENABLED NothingToDelete)
       /\ (pc = "done" => Outcome = exit_json(FALSE, None))

C2_Witness ==
    pc = "done" /\ input.state = "absent" /\ classified = "absent" /\ remote = Absent

\* C3: with state=absent and a node found, clean or corrupt, the run issues
\* exactly one delete call, for that node's id, and no other mutating call,
\* and exits with changed=true.
C3_AbsentDeletesOnce ==
    (input.state = "absent" /\ classified \in {"clean", "corrupt"})
    => /\ \A i \in DOMAIN calls :
            calls[i].op \in MutatingOps
            => calls[i].op = "delete_ordering_service_node"
               /\ (calls[i].ok => calls[i].arg = osn["id"])
       /\ Len(Mutations(calls)) <= 1
       /\ (pc = "done" => /\ Len(Mutations(calls)) = 1
                          /\ Outcome.changed
                          /\ remote = Absent)

C3_Witness ==
    pc = "done" /\ input.state = "absent" /\ classified = "corrupt"

\* The calls of a run that creates the node, from the lookup of the
\* ordering service on, when no call fails.
create_path_calls(fin) ==
    create_reads(argument_defaults(input))
    \o <<Call("create_ordering_service",
              D(create_payload(argument_defaults(input), console.free)), TRUE)>>
    \o (IF fin THEN <<Call("wait_for", input.wait_timeout, TRUE)>> ELSE <<>>)

first_reads ==
    <<Call("get_component_by_display_name", input.name, TRUE),
      Call("is_free_cluster", None, TRUE)>>

\* C4: with state=present and a corrupt node found, the corrupt entry is
\* deleted (unmanaged delete) before any create call, and after the delete
\* the run goes on exactly as the run for an absent node does.
C4_CorruptDeletedBeforeCreate ==
    /\ (input.state = "present" /\ classified = "corrupt")
       => /\ \A i \in DOMAIN calls :
               calls[i].op = "create_ordering_service"
               => \E j \in 1..(i - 1) :
                     calls[j] = Call("delete_ext_ordering_service_node",
                                     corrupt_node["id"], TRUE)
          /\ (pc = "done"
              => /\ calls = first_reads
                            \o <<Call("delete_ext_ordering_service_node",
                                      corrupt_node["id"], TRUE)>>
                            \o create_path_calls(osn["consenter_proposal_fin"].b)
                 /\ Outcome.changed)
    /\ (input.state = "present" /\ classified = "absent" /\ pc = "done")
       => /\ calls = first_reads \o create_path_calls(osn["consenter_proposal_fin"].b)
          /\ Outcome.changed

C4_Witness ==
    /\ pc = "done" /\ input.state = "present" /\ classified = "corrupt"
    /\ Called("create_ordering_service")

\* C5: on the update path, a msp_id parameter that differs from the node's
\* msp_id makes the run fail with an error that names msp_id and holds the
\* observed and the requested value.
C5_MspIdChangeRejected ==
    (/\ input.state = "present" /\ classified = "clean"
     /\ OnUpdatePath
     /\ Finished /\ NoFailureIn(history[Len(history)])
     /\ input.msp_id # osn["msp_id"])
    => /\ Outcome.failed
       /\ "change" \in DOMAIN Outcome.msg
       /\ Outcome.msg.change = "msp_id"
       /\ Outcome.msg.from = osn["msp_id"]
       /\ Outcome.msg.to = input.msp_id

\* C7: with state=present, a node that matches the name but whose
\* configuration does not match and cannot be updated in place (its msp_id)
\* is removed and created again: a delete followed by a create.
C7_RecreatedWhenNotUpdatable ==
    (/\ input.state = "present" /\ classified = "clean"
     /\ pc = "done"
     /\ input.msp_id # osn["msp_id"])
    => \E i, j \in DOMAIN calls :
          /\ i < j
          /\ calls[i].op \in {"delete_ordering_service_node",
                              "delete_ext_ordering_service_node"}
          /\ calls[j].op = "create_ordering_service"

\* C8: on the update path, with desired admin certs D and observed admin
\* certs O as sets of normalised certificates, the run issues
\* edit_admin_certs(id, D \ O, O \ D) when D # O, which leaves the node with
\* the certificates D, and no admin certificate call when D = O.
C8_AdminCertsEdit ==
    pc = "join"
    => LET edits == SelectSeq(calls, LAMBDA c : c.op = "edit_admin_certs")
       IN  IF admins_comparable(params, osn)
           THEN LET Dn == {normalize_whitespace(c) : c \in Range(expected_admins(params).l)}
                    On == {normalize_whitespace(c) : c \in Range(osn["admin_certs"].l)}
                IN  /\ edits = IF Dn = On THEN <<>>
                               ELSE <<Call("edit_admin_certs",
                                           [id |-> osn["id"], append |-> Dn \ On,
                                            remove |-> On \ Dn], TRUE)>>
                    /\ normalized_set(remote["admin_certs"].l) = Dn
           ELSE edits = <<>>

\* D = {A, B} (A given with trailing white space), O = {B, C}: add A, remove C.
C8_Witness ==
    /\ pc = "join"
    /\ input.admins = L(<<"A ", "B">>)
    /\ calls[Len(calls)] = Call("edit_admin_certs",
                                [id |-> S("osn1"), append |-> {"A"}, remove |-> {"C"}], TRUE)

\* C9: the config block is submitted only in a run that found the node
\* deployed at its start, never in a run that took the create path, and only
\* to a node whose consenter_proposal_fin is false.
C9_ConfigBlockOnlyPreCreated ==
    /\ Called("submit_config_block")
       => /\ classified = "clean"
          /\ ~OnCreatePath
          /\ ~Called("create_ordering_service")
          /\ Truthy(input.config_block)
    /\ pc = "mark"
       => /\ calls[Len(calls)].op = "submit_config_block"
          /\ ~remote["consenter_proposal_fin"].b
    /\ (pc = "join" /\ remote["consenter_proposal_fin"].b) => ~ENABLED (SubmitConfigBlock /\ pc' = "mark")

C9_Witness ==
    pc = "mark" /\ calls[Len(calls)].op = "submit_config_block" /\ classified = "clean"

\* C10: the readiness wait is made if and only if the node the run ends
\* with has consenter_proposal_fin true; a node with consenter_proposal_fin
\* false is returned without any wait.
C10_WaitIffJoined ==
    /\ Called("wait_for") => osn["consenter_proposal_fin"].b
    /\ (pc = "done" /\ input.state = "present")
       => /\ Outcome.ordering_service_node = D(extract_ordering_service_node_info(osn))
          /\ osn["consenter_proposal_fin"] = remote["consenter_proposal_fin"]
          /\ Called("wait_for") <=> osn["consenter_proposal_fin"].b

C10_Witness ==
    /\ pc = "done" /\ input.state = "present"
    /\ ~osn["consenter_proposal_fin"].b
    /\ ~Called("wait_for")
    /\ ~Outcome.ordering_service_node.d.consenter_proposal_fin.b

\* The update requests of the current run.
UpdateCalls == SelectSeq(calls, LAMBDA c : c.op = "update_ordering_service_node" /\ c.ok)

\* C14: when the caller leaves version unset, the update path makes no
\* version-resolution call and no update request holds the key version.
C14_VersionUnsetFrame ==
    (OnUpdatePath /\ IsNone(input.version))
    => /\ ~Called("resolve_peer_version")
       /\ ~Called("resolve_ordering_service_node_version")
       /\ "version" \notin DOMAIN expected
       /\ \A i \in DOMAIN UpdateCalls : "version" \notin DOMAIN UpdateCalls[i].arg.d

C14_Witness ==
    /\ OnUpdatePath
    /\ IsNone(input.version)
    /\ Len(UpdateCalls) = 1
    /\ pc = "done"

\* The top-level keys on which two mappings differ.
differing_keys(a, b) ==
    {k \in (DOMAIN a) \cup (DOMAIN b) : k \notin DOMAIN a \/ k \notin DOMAIN b \/ a[k] # b[k]}

\* The step of the update path that applies the changes.
UpdateStep == pc = "update" /\ pc' = "admins"

UpdateIssued == Len(calls') = Len(calls) + 1 /\ calls'[Len(calls')].op = "update_ordering_service_node"

\* C15 as stated: on the update path an update request is issued exactly
\* when the observed node differs from the new state, and its payload holds
\* exactly the top-level keys on which the two differ.
C15_UpdateExactlyDiff ==
    [][UpdateStep =>
         /\ UpdateIssued <=> osn # new_osn
         /\ UpdateIssued =>
              DOMAIN calls'[Len(calls')].arg.d = differing_keys(osn, new_osn)]_vars

\* C15 amended: on the update path an update request is issued exactly when
\* the observed node differs from the new state; its payload holds the
\* top-level keys on which the two differ, each with the value of the new
\* state, and in addition the key resources whenever the resources parameter
\* is set (given by the caller, or emptied by the module on a free cluster).
C15_UpdateDiffAndResources ==
    [][UpdateStep =>
         /\ UpdateIssued <=> osn # new_osn
         /\ ~UpdateIssued => calls' = calls
         /\ UpdateIssued =>
              LET payload == calls'[Len(calls')].arg.d
              IN  /\ DOMAIN payload =
                        differing_keys(osn, new_osn)
                        \cup (IF ~IsNone(params.resources) THEN {"resources"} ELSE {})
                  /\ \A k \in DOMAIN payload : payload[k] = new_osn[k]]_vars

\* An update request that carries the changed version and the whole of the
\* resources the caller gave.
C15_Witness ==
    /\ pc = "admins"
    /\ Len(UpdateCalls) = 1
    /\ ~IsNone(input.resources)
    /\ DOMAIN UpdateCalls[1].arg.d = {"version", "resources"}

\* C16: on the update path, whenever the caller supplied resources and an
\* update request is issued, the request's resources is the whole resources
\* of the new state: the observed resources overlaid with the caller's, with
\* the leaves the caller did not name.
C16_WholeResources ==
    (OnUpdatePath /\ ~IsNone(input.resources))
    => /\ pc = "update" =>
             new_osn["resources"] = D(merge_dicts(osn["resources"].d, input.resources.d))
       /\ \A i \in DOMAIN UpdateCalls :
             /\ "resources" \in DOMAIN UpdateCalls[i].arg.d
             /\ UpdateCalls[i].arg.d["resources"] = new_osn["resources"]

C16_Witness ==
    /\ pc = "admins"
    /\ Len(UpdateCalls) = 1
    /\ ~IsNone(input.resources)
    /\ LET resources == UpdateCalls[1].arg.d["resources"].d
       IN  /\ resources["orderer"].d["requests"].d["cpu"] = S("500m")
           /\ resources["orderer"].d["requests"].d["memory"] = S("500M")
           /\ "proxy" \in DOMAIN resources

OverlayParameters == {"resources", "config_override", "crypto", "version"}

\* C17: the overlay of the update path holds a key for resources,
\* config_override, crypto or version only if the caller set that parameter;
\* a parameter the caller left unset is absent from the overlay and is not
\* replaced by a default value.
C17_OverlayOnlyWhatWasSet ==
    OnUpdatePath =>
       \A k \in OverlayParameters : k \in DOMAIN expected => ~IsNone(input[k])

\* The create requests the current run has issued.
CreateCalls == SelectSeq(calls, LAMBDA c : c.op = "create_ordering_service" /\ c.ok)

\* C18 as stated: admin certificate reconciliation also follows the create
\* path: a run that creates the node, with the desired admin certificates
\* determinable, goes from the create call to the comparison of the desired
\* and the observed admin certificates.
C18_ComparedAfterCreate ==
    [][(pc = "create" /\ pc' # "failed" /\ Truthy(expected_admins(params)))
       => pc' = "admins"]_vars

\* C18 amended: admin certificate reconciliation follows the update path
\* only.  A run that creates the node sends the desired admin certificates in
\* the create request and goes from the create call to the wait and exit: no
\* comparison and no edit_admin_certs call follows the create call.
C18_CreateSendsAdminCerts ==
    /\ Len(CreateCalls) > 0 =>
          /\ pc \in {"wait", "done", "failed"}
          /\ ~Called("edit_admin_certs")
          /\ CreateCalls[1].arg.d["crypto"].l[1].d["enrollment"].d["component"].d["admincerts"]
                = params.admins
    /\ Called("edit_admin_certs") => OnUpdatePath

C18_Witness ==
    /\ pc = "done"
    /\ Len(CreateCalls) = 1
    /\ Truthy(expected_admins(params))
    /\ remote["admin_certs"] = params.admins

\* The three places a caller may name admin certificates, in order.
admin_sources(p) ==
    LET section(name) ==
            IF IsDict(p.crypto) /\ name \in DOMAIN p.crypto.d
               /\ "component" \in DOMAIN p.crypto.d[name].d
               /\ "admincerts" \in DOMAIN p.crypto.d[name].d["component"].d
            THEN p.crypto.d[name].d["component"].d["admincerts"]
            ELSE None
    IN  <<p.admins, section("enrollment"), section("msp")>>

non_empty_sources(p) == {i \in 1..3 : Truthy(admin_sources(p)[i])}

EditCalls == SelectSeq(calls, LAMBDA c : c.op = "edit_admin_certs" /\ c.ok)

\* C19: the desired admin certificates are those of the first non-empty of
\* admins, crypto.enrollment.component.admincerts and
\* crypto.msp.component.admincerts; when none is non-empty, or the observed
\* node has no admin_certs field, no edit_admin_certs call is made.
C19_AdminSourcePrecedence ==
    LET chosen == non_empty_sources(params)
    IN  IF chosen = {} \/ "admin_certs" \notin DOMAIN osn
        THEN ~Called("edit_admin_certs")
        ELSE pc = "join" =>
               LET first == CHOOSE i \in chosen : \A j \in chosen : i <= j
                   desired == normalized_set(admin_sources(params)[first].l)
                   observed == normalized_set(osn["admin_certs"].l)
               IN  IF desired = observed THEN Len(EditCalls) = 0
                   ELSE /\ Len(EditCalls) = 1
                        /\ EditCalls[1].arg.append = desired \ observed
                        /\ EditCalls[1].arg.remove = observed \ desired

\* The enrollment admincerts are empty and the msp admincerts decide.
C19_Witness ==
    /\ pc = "join"
    /\ non_empty_sources(params) = {3}
    /\ Len(EditCalls) = 1
    /\ EditCalls[1].arg.append = {"C"}
    /\ EditCalls[1].arg.remove = {"A"}

\* C20: within a run the edit that marks the node joined comes only right
\* after a submit_config_block for the same node id that returned; when the
\* submit fails the run fails and never marks the node; with no config block
\* given neither call is made.
C20_MarkedOnlyAfterSubmit ==
    /\ \A i \in DOMAIN calls :
          calls[i].op = "edit_ordering_service_node"
          => /\ i > 1
             /\ calls[i - 1].op = "submit_config_block"
             /\ calls[i - 1].ok
             /\ calls[i].ok => calls[i].arg.id = calls[i - 1].arg.id
    /\ (\E i \in DOMAIN calls : calls[i].op = "submit_config_block" /\ ~calls[i].ok)
          => /\ pc = "failed"
             /\ ~Called("edit_ordering_service_node")
             /\ ~remote["consenter_proposal_fin"].b
    /\ ~Truthy(params.config_block)
          => ~Called("submit_config_block") /\ ~Called("edit_ordering_service_node")

C20_Witness ==
    /\ pc = "done"
    /\ \E i \in DOMAIN calls :
          /\ calls[i].op = "submit_config_block" /\ calls[i].ok
          /\ calls[i + 1].op = "edit_ordering_service_node" /\ calls[i + 1].ok
          /\ calls[i + 1].arg.id = calls[i].arg.id
    /\ remote["consenter_proposal_fin"].b

\* The run has just failed on the argument checks.
ValidationFailed ==
    /\ pc = "failed"
    /\ ~IsNone(ValidationError(argument_defaults(input)))
    /\ Outcome.msg = ValidationError(argument_defaults(input))

\* C21: a run that fails on the argument checks (certificate_authority and
\* crypto both or neither given, msp_id or ordering_service missing) has
\* issued no remote mutation, whatever the console held at its start, a
\* corrupt node included.
C21_ValidationBeforeMutation ==
    ValidationFailed => Mutations(calls) = <<>>

\* The run's last call is a wait that failed.
WaitTimedOut ==
    /\ Len(calls) > 0
    /\ calls[Len(calls)].op = "wait_for"
    /\ ~calls[Len(calls)].ok

\* C22: the readiness wait is the last call of a run; when it fails, every
\* call made before it has returned, no call follows it, and the run is
\* reported as failed.
C22_TimeoutIsLast ==
    /\ \A i \in DOMAIN calls : calls[i].op = "wait_for" => i = Len(calls)
    /\ WaitTimedOut =>
          /\ pc = "failed"
          /\ Outcome.failed
          /\ history[Len(history)].calls = calls
          /\ \A j \in 1..(Len(calls) - 1) : calls[j].ok

\* The wait fails after the config block was submitted and the node marked.
C22_Witness ==
    /\ WaitTimedOut
    /\ Called("submit_config_block")
    /\ Called("edit_ordering_service_node")
    /\ remote["consenter_proposal_fin"].b

\* A call of the run has failed.
CallFailed == \E i \in DOMAIN calls : ~calls[i].ok

\* C23: when a console call of a run fails, it is the last call of the run
\* (no further read or write, no second attempt), the run ends in fail_json,
\* and the failing step leaves the console as the calls before it left it.
C23_AbortOnFailure ==
    /\ [](/\ \A i \in DOMAIN calls : ~calls[i].ok => i = Len(calls)
          /\ CallFailed =>
                /\ pc = "failed"
                /\ Outcome.failed
                /\ history[Len(history)].calls = calls)
    /\ [][(Len(calls') > Len(calls) /\ ~calls'[Len(calls')].ok)
             => remote' = remote]_vars

\* edit_admin_certs fails after the update was applied: the update stays.
C23_Witness ==
    /\ pc = "failed"
    /\ calls[Len(calls)].op = "edit_admin_certs"
    /\ ~calls[Len(calls)].ok
    /\ Len(UpdateCalls) = 1
    /\ \A k \in DOMAIN UpdateCalls[1].arg.d : remote[k] = UpdateCalls[1].arg.d[k]

\* What a run makes of the component the console holds under the name.
classification(component) ==
    IF IsNone(component) THEN "absent"
    ELSE IF "deployment_attrs_missing" \in DOMAIN component THEN "corrupt"
    ELSE "clean"

RemoteCallFailed(h) == \E i \in DOMAIN h.calls : ~h.calls[i].ok

\* C24 (under SpecRecover): when a state=present run fails at a remote call
\* and the runs that follow with the same parameters do not fail, one of the
\* first three of them reports changed=false; a run starts with fresh locals
\* and classifies the name from what the console holds, nothing else.
C24_RecoversAfterFailure ==
    /\ \A f \in DOMAIN history :
          (/\ RemoteCallFailed(history[f])
           /\ f + 3 <= Len(history)
           /\ \A g \in (f + 1)..(f + 3) : ~history[g].outcome.failed)
          => \E g \in (f + 1)..(f + 3) : ~history[g].outcome.changed
    /\ pc = "start" =>
          /\ osn = None /\ ~exists /\ ~corrupt /\ classified = "unknown" /\ ~changed
          /\ expected = None /\ new_osn = None /\ diff = None /\ calls = <<>>
    /\ pc = "free" => classified = classification(remote) /\ osn = remote

\* The create call of the first run fails; the next run creates the node, the
\* one after it updates it, and the third reports changed=false.
C24_Witness ==
    /\ Len(history) = 4
    /\ RemoteCallFailed(history[1])
    /\ history[1].outcome.msg = S("create_ordering_service")
    /\ history[2].classified = "absent"
    /\ ~history[2].outcome.failed /\ history[2].outcome.changed
    /\ ~history[3].outcome.failed /\ history[3].outcome.changed
    /\ ~history[4].outcome.failed /\ ~history[4].outcome.changed

\* C25: in every create request config_override is the one-element sequence
\* of the node's configuration override, crypto is the one-element sequence
\* of the node's crypto configuration, and zone is the one-element sequence
\* of the zone when a zone is given (and absent otherwise).
C25_CreateWrapsFields ==
    \A i \in DOMAIN CreateCalls :
       LET payload == CreateCalls[i].arg.d
       IN  /\ payload["config_override"] = L(<<params.config_override>>)
           /\ IsList(payload["crypto"]) /\ Len(payload["crypto"].l) = 1
           /\ payload["crypto"].l[1] = get_crypto(params)
           /\ IF IsNone(params.zone) THEN "zone" \notin DOMAIN payload
              ELSE payload["zone"] = L(<<params.zone>>)

C25_Witness ==
    /\ Len(CreateCalls) = 1
    /\ "zone" \in DOMAIN CreateCalls[1].arg.d
    /\ CreateCalls[1].arg.d["zone"] = L(<<S("dal10")>>)
    /\ CreateCalls[1].arg.d["config_override"] =
          L(<<D([General |-> D([Keepalive |-> D([ServerMinInterval |-> S("70s")])])])>>)

\* The operations of the mutating calls of the current run, in order.
MutationOps == [i \in DOMAIN Mutations(calls) |-> Mutations(calls)[i].op]

\* C26: a run on the create path issues one create call and no update,
\* admin certificate edit, config block submit or mark-joined call; the only
\* other mutation is the delete of a corrupt entry before it, in a run that
\* found a corrupt entry.
C26_CreateIsSingleCall ==
    OnCreatePath =>
       /\ MutationOps \in
             IF classified = "corrupt"
             THEN { <<"delete_ext_ordering_service_node">>,
                    <<"delete_ext_ordering_service_node", "create_ordering_service">> }
             ELSE { <<>>, <<"create_ordering_service">> }
       /\ pc \in {"wait", "done"} => Len(CreateCalls) = 1

C26_Witness ==
    /\ pc = "done"
    /\ classified = "corrupt"
    /\ Truthy(params.config_block)
    /\ MutationOps = <<"delete_ext_ordering_service_node", "create_ordering_service">>
    /\ ~remote["consenter_proposal_fin"].b

\* C27: the update path resolves a version the caller gives through the
\* same console operation as the create path, so that the same version
\* string gives the same concrete version on both paths.
C27_SameVersionResolution ==
    (OnUpdatePath /\ ~IsNone(input.version))
    => /\ Called("resolve_ordering_service_node_version")
       /\ expected["version"] = S(resolve_ordering_service_node_version(input.version.s))

\* C28: the node a run works with is fetched at the start and fetched again
\* after each mutation: from the admin certificate step on, the local node
\* agrees with the console on what the run's mutations changed (the fields
\* of the update request, the admin certificates, the joined mark).
C28_NodeReflectsMutations ==
    (pc \in {"join", "mark", "wait", "done"} /\ ~IsNone(osn) /\ ~IsNone(remote))
    => /\ Get(osn, "admin_certs", None) = Get(remote, "admin_certs", None)
       /\ osn["consenter_proposal_fin"] = remote["consenter_proposal_fin"]
       /\ \A i \in DOMAIN UpdateCalls :
             \A k \in DOMAIN UpdateCalls[i].arg.d : osn[k] = remote[k]

\* C32: a run that ends without failure reports changed = true exactly when
\* it issued a mutating call (a delete, the unmanaged delete, a create, an
\* update, an admin certificate edit, a config block or the mark-joined
\* edit); so a run that deleted a corrupt entry reports changed = true.
C32_ChangedExact ==
    \A r \in DOMAIN history :
       ~history[r].outcome.failed =>
          (history[r].outcome.changed <=> Mutations(history[r].calls) # <<>>)

\* A run deleted the corrupt entry, created the node and reported a change.
C32_Witness ==
    /\ pc = "done"
    /\ classified = "corrupt"
    /\ Called("delete_ext_ordering_service_node")
    /\ Called("create_ordering_service")
    /\ Outcome.changed

\* The run has refused a banned change.
BannedChangeRaised(h) == "change" \in DOMAIN h.outcome.msg

\* C33: on the update path the overlay holds keys among resources,
\* config_override, version and crypto only, so the top-level keys of
\* diff(observed, merge(copy(observed), overlay)) are among those four and
\* no run ends with the banned-change error.
C33_BannedNeverTaken ==
    /\ pc = "update" =>
          /\ DOMAIN expected \subseteq permitted_changes
          /\ new_osn = merge_dicts(copy_dict(osn), expected)
          /\ DOMAIN diff_dicts(osn, new_osn) \subseteq permitted_changes
    /\ \A r \in DOMAIN history : ~BannedChangeRaised(history[r])

\* The caller names another MSP than the node's and a newer version: the
\* diff holds the version and not the MSP ID.
C33_Witness ==
    /\ pc = "update"
    /\ input.msp_id = S("Org2MSP")
    /\ osn["msp_id"] = S("Org1MSP")
    /\ "version" \in DOMAIN diff_dicts(osn, new_osn)

\* The operations of cs that delete the node.
Deletes(cs) ==
    SelectSeq(cs, LAMBDA c : c.op \in {"delete_ordering_service_node",
                                       "delete_ext_ordering_service_node"})

\* What C34 asks of the calls cs of a state=present run that classified the
\* entry as cl at its start; update tells if it took the update path.
present_run_deletes(cs, cl, update) ==
    /\ \A i \in DOMAIN cs : cs[i].op # "delete_ordering_service_node"
    /\ Len(Deletes(cs)) <= 1
    /\ Deletes(cs) # <<>> => cl = "corrupt"
    /\ update => /\ Deletes(cs) = <<>>
                 /\ \A i \in DOMAIN cs : cs[i].op # "create_ordering_service"

C35_CheckModeMutatesNothing ==
    /\ [](input.check_mode => Mutations(calls) = <<>>)
    /\ [][input.check_mode => remote' = remote]_vars

---------------------------------------------------------------------------
(* Properties of msp_utils, checked under SpecMsp                          *)

Parsed == fn.step = "parsed"

RoundTripFields ==
    { "msp_id", "root_certs", "intermediate_certs", "admins", "revocation_list",
      "tls_root_certs", "tls_intermediate_certs", "fabric_node_ous",
      "organizational_unit_identifiers" }

\* C11: for every Organization O, msp_to_organization(O.msp_id,
\* organization_to_msp(O, false, {})) returns an Organization equal to O on
\* msp_id, root_certs, intermediate_certs, admins, revocation_list,
\* tls_root_certs, tls_intermediate_certs, fabric_node_ous and
\* organizational_unit_identifiers, and nothing of the tree's signing_identity
\* is populated on the result.
C11_MspRoundTrip ==
    (/\ Parsed
     /\ ~fn.endorsement_policy_required
     /\ fn.policies = E
     /\ fn.tree \in {fn.msp, signed(fn.msp)})
    => /\ fn.result.raised = "nothing"
       /\ \A f \in RoundTripFields : fn.result.value[f] = fn.organization[f]
       /\ fn.result.value.signing_identity = None

C11_Witness ==
    /\ Parsed
    /\ ~fn.endorsement_policy_required
    /\ fn.policies = E
    /\ fn.tree = fn.msp
    /\ fn.organization.admins = L(<<"admin1", "admin2">>)
    /\ fn.organization.intermediate_certs = L(<<"int1">>)
    /\ fn.result.raised = "nothing"
    /\ fn.result.value.tls_root_certs = L(<<"tlsroot1">>)

\* A 1-of-1 ROLE rule over a single principal of the MSP msp_id.
one_of_one_role(policy, msp_id) ==
    LET value == policy.d["value"].d
        identities == value["identities"].l
        n_out_of == value["rule"].d["n_out_of"].d
    IN  /\ policy.d["type"] = I(1)
        /\ Len(identities) = 1
        /\ identities[1].d["principal"].d["msp_identifier"] = msp_id
        /\ identities[1].d["principal_classification"] = S("ROLE")
        /\ n_out_of["n"] = I(1)
        /\ n_out_of["rules"] = L(<<D([signed_by |-> I(0)])>>)

\* C12: with no extra policies the policies of the built tree are exactly
\* Admins, Readers and Writers when endorsement_policy_required is false, and
\* those plus Endorsement when it is true; each is a 1-of-1 ROLE rule over a
\* single principal whose msp_identifier is the organization's msp_id.
C12_DefaultPolicies ==
    (fn.step \in {"built", "parsed"} /\ fn.policies = E)
    => LET policies == fn.msp.d["policies"].d
       IN  /\ DOMAIN policies =
                 IF fn.endorsement_policy_required
                 THEN {"Admins", "Readers", "Writers", "Endorsement"}
                 ELSE {"Admins", "Readers", "Writers"}
           /\ \A policyName \in DOMAIN policies :
                 one_of_one_role(policies[policyName].d["policy"], fn.organization.msp_id)

C12_Witness ==
    /\ fn.step = "built"
    /\ fn.policies = E
    /\ fn.endorsement_policy_required
    /\ fn.organization.msp_id = S("OrdererOrgMSP")
    /\ "Endorsement" \in DOMAIN fn.msp.d["policies"].d

\* The path values.MSP.value.config is in the tree.
config_path_present(tree) ==
    /\ "values" \in DOMAIN tree.d
    /\ "MSP" \in DOMAIN tree.d["values"].d
    /\ "value" \in DOMAIN tree.d["values"].d["MSP"].d
    /\ "config" \in DOMAIN tree.d["values"].d["MSP"].d["value"].d

\* C13: msp_to_organization fails with a MalformedMspError, not with a generic
\* lookup failure, whenever values.MSP or the nested value.config is absent
\* from the tree, and returns an Organization without error when both are
\* present with all config fields.
C13_MalformedMspError ==
    Parsed =>
       IF ~config_path_present(fn.tree)
       THEN fn.result.raised = "MalformedMspError"
       ELSE (\A i \in DOMAIN config_reads :
                config_reads[i] \in DOMAIN fn.tree.d["values"].d["MSP"].d["value"].d["config"].d)
            => fn.result.raised = "nothing"

Built == fn.step \in {"built", "parsed"}

\* The names of the default policies of a tree.
default_names(endorsement_policy_required) ==
    IF endorsement_policy_required
    THEN {"Admins", "Readers", "Writers", "Endorsement"}
    ELSE {"Admins", "Readers", "Writers"}

\* C29: for every extra policy name P with value V the caller passes, the
\* built tree has policies[P] = {mod_policy: Admins, policy: V}, in place of
\* the default when P names one; the defaults whose names are not passed
\* are the 1-of-1 role policies, and there is no other policy.
C29_ExtraPolicies ==
    Built =>
       LET policies == fn.msp.d["policies"].d
           defaults == default_names(fn.endorsement_policy_required)
       IN  /\ DOMAIN policies = defaults \cup DOMAIN fn.policies
           /\ \A P \in DOMAIN fn.policies :
                 policies[P] = D([mod_policy |-> S("Admins"), policy |-> fn.policies[P]])
           /\ \A N \in defaults \ DOMAIN fn.policies :
                 /\ policies[N].d["mod_policy"] = S("Admins")
                 /\ one_of_one_role(policies[N].d["policy"], fn.organization.msp_id)

\* The caller's Endorsement replaces the default and Lifecycle is added.
C29_Witness ==
    /\ fn.step = "built"
    /\ fn.endorsement_policy_required
    /\ DOMAIN fn.policies = {"Endorsement", "Lifecycle"}
    /\ fn.msp.d["policies"].d["Endorsement"].d["policy"] = custom_policy
    /\ fn.msp.d["policies"].d["Lifecycle"].d["policy"] = custom_policy
    /\ one_of_one_role(fn.msp.d["policies"].d["Admins"].d["policy"], fn.organization.msp_id)

\* The Policy invariant: every signed_by index is a position of the
\* identities list (counted from 0), and n is at most the number of rules.
policy_invariant(policy) ==
    LET identities == policy.d["value"].d["identities"].l
        n_out_of == policy.d["value"].d["rule"].d["n_out_of"].d
        rules == n_out_of["rules"].l
    IN  /\ \A r \in DOMAIN rules :
              rules[r].d["signed_by"].i >= 0 /\ rules[r].d["signed_by"].i < Len(identities)
        /\ n_out_of["n"].i <= Len(rules)

\* C30: every policy of a built tree, default or passed by the caller,
\* satisfies the Policy invariant.
C30_PolicyInvariant ==
    Built =>
       \A policyName \in DOMAIN fn.msp.d["policies"].d :
          policy_invariant(fn.msp.d["policies"].d[policyName].d["policy"])

\* The one shape of a default policy, of msp_id and role alone.
role_policy(msp_id, role) ==
    D([type |-> I(1),
       value |-> D([identities |-> L(<<D([principal |-> D([msp_identifier |-> msp_id,
                                                           role |-> S(role)]),
                                         principal_classification |-> S("ROLE")])>>),
                    rule |-> D([n_out_of |-> D([n |-> I(1),
                                                rules |-> L(<<D([signed_by |-> I(0)])>>)])])])])

builder_role(builder) ==
    IF builder = "get_default_admins_policy" THEN "ADMIN" ELSE "MEMBER"

\* C31: every default policy builder returns the one shape (type 1, one
\* ROLE principal of the organization's msp_id, n_out_of n=1 over signed_by
\* 0) with role ADMIN for Admins and MEMBER for Readers, Writers and
\* Endorsement, whatever the other fields of the organization; no two calls
\* return the same object, so a policy the caller has not changed itself is
\* still as it was returned.
C31_DefaultBuilders ==
    /\ \A i \in DOMAIN fn.returned :
          i \notin fn.mutated =>
             fn.heap[fn.returned[i].ref] =
                role_policy(fn.organization.msp_id, builder_role(fn.returned[i].builder))
    /\ \A i, j \in DOMAIN fn.returned :
          i # j => fn.returned[i].ref # fn.returned[j].ref

\* The readers policy was built twice and the caller changed the first.
C31_Witness ==
    /\ Len(fn.returned) = 2
    /\ fn.returned[1].builder = "get_default_readers_policy"
    /\ fn.returned[2].builder = "get_default_readers_policy"
    /\ fn.mutated = {1}
    /\ fn.heap[fn.returned[1].ref].d["type"] = I(0)
    /\ fn.heap[fn.returned[2].ref] = role_policy(fn.organization.msp_id, "MEMBER")

====
